---------------------------- MODULE Spec2Model ----------------------------
(***************************************************************************)
(* kdtools (inst/include/kdtools.h): an implicit k-d tree kept in a        *)
(* contiguous array.  kd_sort permutes the array in place; the queries     *)
(* walk index ranges of it and recompute each range's pivot with           *)
(* find_pivot.                                                             *)
(*                                                                         *)
(* Conventions.  An iterator is a 0-based index into the array `a`; the    *)
(* range [first,last) is the pair of indices.  A point is a tuple of       *)
(* integers, ndim(p) its arity; axis I of the source (get<I>) is the       *)
(* 0-based I.  Template parameters (the axis I, the counter K) are         *)
(* ordinary arguments.                                                     *)
(***************************************************************************)
EXTENDS Integers, Sequences, FiniteSets

VARIABLES
    a,           \* the array the iterators range over
    nd,          \* ndim<KeyType>::value of the element type
    pc,          \* where the caller is: "sort", "built", "queried", ...
    stack,       \* kd_sort: the calls still to run, innermost last
    built,       \* kd_sort: the calls that ran: [first, last, I, pivot]
    res,         \* the last query: its arguments and what it returned
    max_threads, \* kd_sort_threaded: its max_threads argument
    threads,     \* kd_sort_threaded: each thread's call stack
    busy,        \* kd_sort_threaded: the index range a thread is permuting
    status,      \* kd_sort_threaded: "running", "returned", "system_error", "terminated"
    createFailed \* kd_sort_threaded: a std::thread constructor has thrown

vars == <<a, nd, pc, stack, built, res, max_threads, threads, busy, status, createFailed>>

---------------------------------------------------------------------------
(* Bounds of the model *)

\* coordinates of the array's points range over 0..MaxCoord
MaxCoord == 1
\* the arrays of Spec have at most MaxLen elements
MaxLen == 4
\* a side of a range of at most PermLen elements is left in every order by
\* nth_element and partition; a longer side in ascending or descending order
PermLen == 2
\* the 3-D arrays of SpecS5 hold at most MaxOthers points besides the triple
MaxOthers == 2
\* the arrays of SpecRQ have up to RQExtra elements more than the threshold
RQExtra == 2
\* kd_sort_threaded is given arrays of at most MaxLenT elements and a
\* max_threads of at most MaxThreads
MaxLenT == 11
MaxThreads == 4

Coords == 0..MaxCoord

PointsOf(n) == [1..n -> Coords]

\* probes reach one step outside the box of the data
ProbesOf(n) == [1..n -> (0 - 1)..(MaxCoord + 1)]

Min(x, y) == IF x < y THEN x ELSE y

---------------------------------------------------------------------------
(* Points, comparators, predicates *)

ndim(p) == Len(p)

get(I, p) == p[I + 1]

At(s, i) == s[i + 1]

distance(first, last) == last - first

middle_of(first, last) == first + (distance(first, last) \div 2)

less_nth(I, lhs, rhs) == get(I, lhs) < get(I, rhs)

incr_wrap(I, N) == (I + 1) % N

next_dim(I, p) == incr_wrap(I, ndim(p))

RECURSIVE kd_less_K(_, _, _, _)
kd_less_K(I, K, lhs, rhs) ==
    IF K = ndim(lhs) - 1
    THEN get(I, lhs) < get(I, rhs)
    ELSE IF get(I, lhs) = get(I, rhs)
         THEN kd_less_K(next_dim(I, lhs), K + 1, lhs, rhs)
         ELSE get(I, lhs) < get(I, rhs)

kd_less(I, lhs, rhs) == kd_less_K(I, 0, lhs, rhs)

RECURSIVE all_less_(_, _, _)
all_less_(I, lhs, rhs) ==
    IF I = ndim(lhs) - 1
    THEN get(I, lhs) < get(I, rhs)
    ELSE get(I, lhs) < get(I, rhs) /\ all_less_(I + 1, lhs, rhs)

all_less(lhs, rhs) == all_less_(0, lhs, rhs)

RECURSIVE none_less_(_, _, _)
none_less_(I, lhs, rhs) ==
    IF I = ndim(lhs) - 1
    THEN get(I, lhs) >= get(I, rhs)
    ELSE get(I, lhs) >= get(I, rhs) /\ none_less_(I + 1, lhs, rhs)

none_less(lhs, rhs) == none_less_(0, lhs, rhs)

within(value, lower, upper) == none_less(value, lower) /\ all_less(value, upper)

scalar_diff(lhs, rhs) == lhs - rhs

scalar_dist(lhs, rhs) ==
    IF scalar_diff(lhs, rhs) < 0 THEN 0 - scalar_diff(lhs, rhs) ELSE scalar_diff(lhs, rhs)

dist_nth(I, lhs, rhs) == scalar_dist(get(I, lhs), get(I, rhs))

diff_nth(I, lhs, rhs) == scalar_diff(get(I, lhs), get(I, rhs))

RECURSIVE sum_of_squares_(_, _, _)
sum_of_squares_(I, lhs, rhs) ==
    IF I = ndim(lhs) - 1
    THEN diff_nth(I, rhs, lhs) * diff_nth(I, rhs, lhs)
    ELSE diff_nth(I, rhs, lhs) * diff_nth(I, rhs, lhs) + sum_of_squares_(I + 1, lhs, rhs)

sum_of_squares(lhs, rhs) == sum_of_squares_(0, lhs, rhs)

---------------------------------------------------------------------------
(* The standard algorithms the builder calls.  std::nth_element and        *)
(* std::partition fix which elements end on which side and leave their     *)
(* order unspecified: each is the set of arrangements it may leave.        *)

Reverse(s) == [i \in 1..Len(s) |-> s[Len(s) + 1 - i]]

Perms(n) == {p \in [1..n -> 1..n] : \A i, j \in 1..n : i # j => p[i] # p[j]}

Arrangements(s) ==
    IF Len(s) = 0 THEN {<<>>}
    ELSE IF Len(s) <= PermLen
         THEN {[i \in 1..Len(s) |-> s[p[i]]] : p \in Perms(Len(s))}
         ELSE {s, Reverse(s)}

\* s with x put before the first element that is pred-greater than x
RECURSIVE Insert(_, _, _)
Insert(s, x, I) ==
    IF s = <<>> THEN <<x>>
    ELSE IF kd_less(I, x, Head(s)) THEN <<x>> \o s
         ELSE <<Head(s)>> \o Insert(Tail(s), x, I)

RECURSIVE Sorted(_, _)
Sorted(s, I) == IF s = <<>> THEN <<>> ELSE Insert(Sorted(Tail(s), I), Head(s), I)

\* std::nth_element(first, nth, last, kd_less<I>) on the elements s of
\* [first,last), nth given as its offset from first: the element of sorted
\* order at nth, nothing greater before it and nothing less after it
nth_element(s, nth, I) ==
    LET t == Sorted(s, I)
    IN  IF nth >= Len(s) THEN {s}
        ELSE {l \o <<t[nth + 1]>> \o r :
                 l \in Arrangements(SubSeq(t, 1, nth)),
                 r \in Arrangements(SubSeq(t, nth + 2, Len(t)))}

SelectSeq2(s, v, I, keep) ==
    LET Test(x) == kd_less(I, x, v) = keep IN SelectSeq(s, Test)

\* std::partition(first, last, x -> kd_less<I>(x, v)) on the elements s: the
\* arrangements it may leave, each with the partition point it returns
partition(s, v, I) ==
    {[seq |-> l \o r, point |-> Len(l)] :
        l \in Arrangements(SelectSeq2(s, v, I, TRUE)),
        r \in Arrangements(SelectSeq2(s, v, I, FALSE))}

\* adjust_pivot left out: the pivot stays at the middle, copies of it before it
adjust_pivot_skipped(s, pivot, I) == {[seq |-> s, pivot |-> pivot]}

\* adjust_pivot(first, pivot, kd_less<I>) on the elements s of [first,last),
\* pivot given as its offset: [first,pivot) is partitioned around *pivot and
\* the partition point is the new pivot
adjust_pivot(s, pivot, I) ==
    {[seq |-> r.seq \o SubSeq(s, pivot + 1, Len(s)), pivot |-> r.point] :
        r \in partition(SubSeq(s, 1, pivot), At(s, pivot), I)}

\* the array with the elements of [first,last) replaced by s
Splice(arr, first, last, s) ==
    [i \in 1..Len(arr) |-> IF i > first /\ i <= last THEN s[i - first] ELSE arr[i]]

Slice(arr, first, last) == SubSeq(arr, first + 1, last)

---------------------------------------------------------------------------
(* find_pivot and the verifier *)

\* std::partition_point(first, first + len, x -> less_nth<I>(x, v)): the
\* bisection of libstdc++, libc++ and the MSVC library, which is what runs
\* also when the range is not partitioned and the standard promises nothing
RECURSIVE partition_point(_, _, _, _, _)
partition_point(arr, first, len, I, v) ==
    IF len <= 0 THEN first
    ELSE LET half == len \div 2
             mid == first + half
         IN  IF less_nth(I, At(arr, mid), v)
             THEN partition_point(arr, mid + 1, len - half - 1, I, v)
             ELSE partition_point(arr, first, half, I, v)

find_pivot(arr, first, last, I) ==
    LET pivot == middle_of(first, last)
    IN  partition_point(arr, first, distance(first, pivot), I, At(arr, pivot))

\* std::is_partitioned over the truth values of the predicate
is_partitioned(bs) ==
    \E k \in 0..Len(bs) : \A i \in 1..Len(bs) : bs[i] = (i <= k)

check_partition(arr, first, pivot, last, I) ==
    is_partitioned([i \in 1..distance(first, last) |->
                       kd_less(I, At(arr, first + i - 1), At(arr, pivot))])

RECURSIVE kd_is_sorted(_, _, _, _)
kd_is_sorted(arr, first, last, I) ==
    IF distance(first, last) < 2 THEN TRUE
    ELSE LET J == incr_wrap(I, ndim(At(arr, first)))
             pivot == find_pivot(arr, first, last, I)
         IN  /\ check_partition(arr, first, pivot, last, I)
             /\ kd_is_sorted(arr, first, pivot, J)
             /\ kd_is_sorted(arr, pivot + 1, last, J)

---------------------------------------------------------------------------
(* Ordered queries *)

\* the last line of kd_lower_bound, for a range of at most one element; on
\* an empty range first = last, and both arms of the conditional are that
\* one iterator whatever the element read through it
lower_bound_leaf(arr, first, last, value) ==
    IF first = last THEN last
    ELSE IF none_less(At(arr, first), value) THEN first ELSE last

RECURSIVE kd_lower_bound(_, _, _, _, _)
\* kd_lower_bound without its second search: when the pivot neither bounds
\* the value nor lies below it on every axis, only the left range is searched
kd_lower_bound_left_only(arr, first, last, I, value) ==
    IF distance(first, last) > 1
    THEN LET J == incr_wrap(I, ndim(value))
             pivot == find_pivot(arr, first, last, I)
             itl == kd_lower_bound(arr, first, pivot, J, value)
             itr == kd_lower_bound(arr, pivot + 1, last, J, value)
         IN  IF none_less(At(arr, pivot), value) THEN itl
             ELSE IF all_less(At(arr, pivot), value) THEN itr
             ELSE IF itl # last /\ none_less(At(arr, itl), value) THEN itl
             ELSE last
    ELSE lower_bound_leaf(arr, first, last, value)

kd_lower_bound(arr, first, last, I, value) ==
    IF distance(first, last) > 1
    THEN LET J == incr_wrap(I, ndim(value))
             pivot == find_pivot(arr, first, last, I)
             itl == kd_lower_bound(arr, first, pivot, J, value)
             itr == kd_lower_bound(arr, pivot + 1, last, J, value)
         IN  IF none_less(At(arr, pivot), value) THEN itl
             ELSE IF all_less(At(arr, pivot), value) THEN itr
             ELSE IF itl # last /\ none_less(At(arr, itl), value) THEN itl
             ELSE IF itr # last /\ none_less(At(arr, itr), value) THEN itr
             ELSE last
    ELSE lower_bound_leaf(arr, first, last, value)

upper_bound_leaf(arr, first, last, value) ==
    IF first = last THEN last
    ELSE IF all_less(value, At(arr, first)) THEN first ELSE last

RECURSIVE kd_upper_bound(_, _, _, _, _)
kd_upper_bound(arr, first, last, I, value) ==
    IF distance(first, last) > 1
    THEN LET J == incr_wrap(I, ndim(value))
             pivot == find_pivot(arr, first, last, I)
             itl == kd_upper_bound(arr, first, pivot, J, value)
             itr == kd_upper_bound(arr, pivot + 1, last, J, value)
         IN  IF all_less(value, At(arr, pivot)) THEN itl
             ELSE IF none_less(value, At(arr, pivot)) THEN itr
             ELSE IF itl # last /\ all_less(value, At(arr, itl)) THEN itl
             ELSE IF itr # last /\ all_less(value, At(arr, itr)) THEN itr
             ELSE last
    ELSE upper_bound_leaf(arr, first, last, value)

kd_binary_search(arr, first, last, value) ==
    LET it == kd_lower_bound(arr, first, last, 0, value)
    IN  it # last /\ none_less(value, At(arr, it))

kd_equal_range(arr, first, last, value) ==
    <<kd_lower_bound(arr, first, last, 0, value),
      kd_upper_bound(arr, first, last, 0, value)>>

\* The positions the ordered queries dereference.  Each operator follows the
\* control flow of the function it is named after and collects the position
\* of every *it the function evaluates; a position is collected, never read
\* from arr, so that the position last of the whole array can be reported.

RECURSIVE partition_point_reads(_, _, _, _, _)
\* the *mid of every bisection step
partition_point_reads(arr, first, len, I, v) ==
    IF len <= 0 THEN {}
    ELSE LET half == len \div 2
             mid == first + half
         IN  {mid} \cup
             (IF less_nth(I, At(arr, mid), v)
              THEN partition_point_reads(arr, mid + 1, len - half - 1, I, v)
              ELSE partition_point_reads(arr, first, half, I, v))

\* *pivot of the middle, and what partition_point reads of [first, middle)
find_pivot_reads(arr, first, last, I) ==
    LET pivot == middle_of(first, last)
    IN  {pivot} \cup
        partition_point_reads(arr, first, distance(first, pivot), I, At(arr, pivot))

RECURSIVE kd_lower_bound_reads(_, _, _, _, _)
\* the last line reads *first, of an empty range too
kd_lower_bound_reads(arr, first, last, I, value) ==
    IF distance(first, last) > 1
    THEN LET J == incr_wrap(I, ndim(value))
             pivot == find_pivot(arr, first, last, I)
             itl == kd_lower_bound(arr, first, pivot, J, value)
             itr == kd_lower_bound(arr, pivot + 1, last, J, value)
             left == kd_lower_bound_reads(arr, first, pivot, J, value)
             right == kd_lower_bound_reads(arr, pivot + 1, last, J, value)
             here == find_pivot_reads(arr, first, last, I) \cup {pivot}
         IN  IF none_less(At(arr, pivot), value) THEN here \cup left
             ELSE IF all_less(At(arr, pivot), value) THEN here \cup right
             ELSE IF itl # last /\ none_less(At(arr, itl), value)
                  THEN here \cup left \cup {itl}
             ELSE here \cup left \cup (IF itl # last THEN {itl} ELSE {})
                       \cup right \cup (IF itr # last THEN {itr} ELSE {})
    ELSE {first}

RECURSIVE kd_upper_bound_reads(_, _, _, _, _)
kd_upper_bound_reads(arr, first, last, I, value) ==
    IF distance(first, last) > 1
    THEN LET J == incr_wrap(I, ndim(value))
             pivot == find_pivot(arr, first, last, I)
             itl == kd_upper_bound(arr, first, pivot, J, value)
             itr == kd_upper_bound(arr, pivot + 1, last, J, value)
             left == kd_upper_bound_reads(arr, first, pivot, J, value)
             right == kd_upper_bound_reads(arr, pivot + 1, last, J, value)
             here == find_pivot_reads(arr, first, last, I) \cup {pivot}
         IN  IF all_less(value, At(arr, pivot)) THEN here \cup left
             ELSE IF none_less(value, At(arr, pivot)) THEN here \cup right
             ELSE IF itl # last /\ all_less(value, At(arr, itl))
                  THEN here \cup left \cup {itl}
             ELSE here \cup left \cup (IF itl # last THEN {itl} ELSE {})
                       \cup right \cup (IF itr # last THEN {itr} ELSE {})
    ELSE {first}

\* kd_lower_bound<0>, then *first when first != last
kd_binary_search_reads(arr, first, last, value) ==
    LET it == kd_lower_bound(arr, first, last, 0, value)
    IN  kd_lower_bound_reads(arr, first, last, 0, value)
        \cup (IF it # last THEN {it} ELSE {})

kd_equal_range_reads(arr, first, last, value) ==
    kd_lower_bound_reads(arr, first, last, 0, value)
    \cup kd_upper_bound_reads(arr, first, last, 0, value)

---------------------------------------------------------------------------
(* Spatial queries.  The coordinates are integers, so sum_of_squares is     *)
(* exact, and std::sqrt is monotone and exact on squares: x < y between two *)
(* l2dist values, or between a dist_nth value and an l2dist value, is the   *)
(* same comparison between their squares.  l2dist2 is l2dist squared and    *)
(* every distance below is kept as its square.                              *)

l2dist2(lhs, rhs) == sum_of_squares(lhs, rhs)

dist_nth2(I, lhs, rhs) == dist_nth(I, lhs, rhs) * dist_nth(I, lhs, rhs)

RECURSIVE kd_nearest_neighbor(_, _, _, _, _)
kd_nearest_neighbor(arr, first, last, I, value) ==
    IF distance(first, last) > 1
    THEN LET J == incr_wrap(I, ndim(value))
             pivot == find_pivot(arr, first, last, I)
             search_left == less_nth(I, value, At(arr, pivot))
             near == IF search_left
                     THEN kd_nearest_neighbor(arr, first, pivot, J, value)
                     ELSE kd_nearest_neighbor(arr, pivot + 1, last, J, value)
             pdist == l2dist2(At(arr, pivot), value)
             closer == near # last /\ l2dist2(At(arr, near), value) < pdist
             search == IF closer THEN near ELSE pivot
             min_dist == IF closer THEN l2dist2(At(arr, near), value) ELSE pdist
             s2 == IF search_left
                   THEN kd_nearest_neighbor(arr, pivot + 1, last, J, value)
                   ELSE kd_nearest_neighbor(arr, first, pivot, J, value)
         IN  IF dist_nth2(I, value, At(arr, pivot)) < min_dist
             THEN IF s2 # last /\ l2dist2(At(arr, s2), value) < min_dist
                  THEN s2 ELSE search
             ELSE search
    ELSE first

\* numeric_limits<double>::max(): above every distance the model forms
numeric_limits_max == 4 * (MaxCoord + 2) * (MaxCoord + 2) + 1

\* n_best: m_n, the heap m_q as the sequence of its (key, iterator) pairs,
\* and, for the record, what each call of max_key found and returned
n_best(n) == [m_n |-> n, m_q |-> <<>>, calls |-> {}]

\* the place of a largest key of the heap; which of several equal keys the
\* heap holds on top does not change the keys left after a pop
TopOf(m_q) ==
    CHOOSE i \in 1..Len(m_q) :
        /\ \A j \in 1..Len(m_q) : m_q[j][1] <= m_q[i][1]
        /\ \A j \in 1..(i - 1) : m_q[j][1] < m_q[i][1]

max_key(Q) ==
    IF Q.m_q = <<>> THEN numeric_limits_max ELSE Q.m_q[TopOf(Q.m_q)][1]

Remove(s, i) == SubSeq(s, 1, i - 1) \o SubSeq(s, i + 1, Len(s))

add(Q, dist, it) ==
    LET q1 == Append(Q.m_q, <<dist, it>>)
    IN  [Q EXCEPT !.m_q = IF Len(q1) > Q.m_n THEN Remove(q1, TopOf(q1)) ELSE q1]

\* the test dist_nth<I>(value, *pivot) <= q.max_key() of knn, noted in the
\* record: the size of the heap, the key returned, the axis distance
NoteMaxKey(Q, axis_dist) ==
    [Q EXCEPT !.calls = @ \cup {[size |-> Len(Q.m_q), key |-> max_key(Q),
                                 dist |-> axis_dist]}]

RECURSIVE knn(_, _, _, _, _, _)
knn(arr, first, last, I, value, Q) ==
    IF distance(first, last) = 1 THEN add(Q, l2dist2(At(arr, first), value), first)
    ELSE IF distance(first, last) = 0 THEN Q
    ELSE LET J == incr_wrap(I, ndim(value))
             pivot == find_pivot(arr, first, last, I)
             q1 == add(Q, l2dist2(At(arr, pivot), value), pivot)
             search_left == less_nth(I, value, At(arr, pivot))
             q2 == IF search_left
                   THEN knn(arr, first, pivot, J, value, q1)
                   ELSE knn(arr, pivot + 1, last, J, value, q1)
             q3 == NoteMaxKey(q2, dist_nth2(I, value, At(arr, pivot)))
         IN  IF dist_nth2(I, value, At(arr, pivot)) <= max_key(q2)
             THEN IF search_left
                  THEN knn(arr, pivot + 1, last, J, value, q3)
                  ELSE knn(arr, first, pivot, J, value, q3)
             ELSE q3

\* copy_to: the iterators in the order the heap is popped, largest key first
RECURSIVE copy_to(_)
copy_to(m_q) ==
    IF m_q = <<>> THEN <<>>
    ELSE <<m_q[TopOf(m_q)][2]>> \o copy_to(Remove(m_q, TopOf(m_q)))

\* kd_nearest_neighbors: the positions whose elements go to the sink, in
\* order, and the record of the max_key calls
kd_nearest_neighbors(arr, first, last, value, n) ==
    LET Q == knn(arr, first, last, 0, value, n_best(n))
    IN  [out |-> copy_to(Q.m_q), calls |-> Q.calls]

\* the linear-scan threshold of kd_range_query
RangeQueryThreshold == 32

\* std::copy_if(first, last, outp, x -> within(x, lower, upper))
copy_if(arr, first, last, lower, upper) ==
    LET In(x) == within(x, lower, upper) IN SelectSeq(Slice(arr, first, last), In)

\* kd_range_query: the elements pushed to the sink, in order
RECURSIVE kd_range_query(_, _, _, _, _, _)
kd_range_query(arr, first, last, I, lower, upper) ==
    IF distance(first, last) > RangeQueryThreshold
    THEN LET J == incr_wrap(I, ndim(lower))
             pivot == find_pivot(arr, first, last, I)
         IN  (IF within(At(arr, pivot), lower, upper) THEN <<At(arr, pivot)>> ELSE <<>>)
             \o (IF ~less_nth(I, At(arr, pivot), lower)
                 THEN kd_range_query(arr, first, pivot, J, lower, upper) ELSE <<>>)
             \o (IF less_nth(I, At(arr, pivot), upper)
                 THEN kd_range_query(arr, pivot + 1, last, J, lower, upper) ELSE <<>>)
    ELSE copy_if(arr, first, last, lower, upper)

---------------------------------------------------------------------------
(* kd_sort *)

Idle == [op |-> "none"]

NoThreads == <<>>

\* the state a caller of kd_sort(first, last) starts in
InitWith(arr, n) ==
    /\ a = arr
    /\ nd = n
    /\ pc = "sort"
    /\ stack = <<[first |-> 0, last |-> Len(arr), I |-> 0]>>
    /\ built = {}
    /\ res = Idle
    /\ max_threads = 0
    /\ threads = NoThreads
    /\ busy = <<>>
    /\ status = "none"
    /\ createFailed = FALSE

ArraysOf(n, maxlen) == UNION {[1..len -> PointsOf(n)] : len \in 0..maxlen}

Init == \E arr \in ArraysOf(2, MaxLen) : InitWith(arr, 2)

\* one call detail::kd_sort<I>(first, last): nth_element, adjust_pivot, and
\* the two recursive calls left on the stack, the right one to run first
KdSortStep ==
    /\ pc = "sort"
    /\ stack # <<>>
    /\ LET f == stack[Len(stack)]
           rest == SubSeq(stack, 1, Len(stack) - 1)
           J == incr_wrap(f.I, nd)
       IN  IF distance(f.first, f.last) > 1
           THEN \E s1 \in nth_element(Slice(a, f.first, f.last),
                                      middle_of(f.first, f.last) - f.first, f.I) :
                \E r \in adjust_pivot(s1, middle_of(f.first, f.last) - f.first, f.I) :
                    LET pivot == f.first + r.pivot
                    IN  /\ a' = Splice(a, f.first, f.last, r.seq)
                        /\ stack' = rest \o <<[first |-> f.first, last |-> pivot, I |-> J],
                                              [first |-> pivot + 1, last |-> f.last, I |-> J]>>
                        /\ built' = built \cup {[first |-> f.first, last |-> f.last,
                                                 I |-> f.I, pivot |-> pivot]}
           ELSE /\ stack' = rest
                /\ UNCHANGED <<a, built>>
    /\ UNCHANGED <<nd, pc, res, max_threads, threads, busy, status, createFailed>>

\* kd_sort(first, last) returns
KdSortReturn ==
    /\ pc = "sort"
    /\ stack = <<>>
    /\ pc' = "built"
    /\ UNCHANGED <<a, nd, stack, built, res, max_threads, threads, busy, status, createFailed>>

---------------------------------------------------------------------------
(* The queries a caller makes of the built array *)

Asked(r) ==
    /\ pc = "built"
    /\ pc' = "queried"
    /\ res' = r
    /\ UNCHANGED <<a, nd, stack, built, max_threads, threads, busy, status, createFailed>>

KdIsSorted ==
    Asked([op |-> "kd_is_sorted", result |-> kd_is_sorted(a, 0, Len(a), 0)])

\* a query's first step on a range the build split: find_pivot<I>(first, last)
FindPivot ==
    \E b \in built :
        Asked([op |-> "find_pivot", first |-> b.first, last |-> b.last, I |-> b.I,
               used |-> b.pivot, result |-> find_pivot(a, b.first, b.last, b.I)])

KdBinarySearch ==
    \E v \in ProbesOf(nd) :
        Asked([op |-> "kd_binary_search", value |-> v,
               result |-> kd_binary_search(a, 0, Len(a), v)])

KdNearestNeighbor ==
    /\ Len(a) > 0
    /\ \E v \in ProbesOf(nd) :
        Asked([op |-> "kd_nearest_neighbor", value |-> v,
               result |-> kd_nearest_neighbor(a, 0, Len(a), 0, v)])

KdNearestNeighbors ==
    \E v \in ProbesOf(nd), k \in 0..Len(a) :
        Asked([op |-> "kd_nearest_neighbors", value |-> v, n |-> k,
               result |-> kd_nearest_neighbors(a, 0, Len(a), v, k)])

KdRangeQuery ==
    \E lo \in ProbesOf(nd), hi \in ProbesOf(nd) :
        Asked([op |-> "kd_range_query", lower |-> lo, upper |-> hi,
               result |-> kd_range_query(a, 0, Len(a), 0, lo, hi)])

\* the build, the verifier and the ordered lookup on 2-D arrays
Next ==
    \/ KdSortStep
    \/ KdSortReturn
    \/ KdIsSorted
    \/ FindPivot
    \/ KdBinarySearch

Spec == Init /\ [][Next]_vars

\* the build and the neighbour queries on 2-D arrays
NextSpatial ==
    \/ KdSortStep
    \/ KdSortReturn
    \/ KdNearestNeighbor
    \/ KdNearestNeighbors

SpecSpatial == Init /\ [][NextSpatial]_vars

\* a 3-D array with exactly three copies of one point among other points
Count(arr, x) == Cardinality({i \in 1..Len(arr) : arr[i] = x})

InitS5 ==
    \E arr \in ArraysOf(3, 3 + MaxOthers) :
        /\ \E x \in PointsOf(3) : Count(arr, x) = 3
        /\ InitWith(arr, 3)

\* kd_equal_range(A, p) for a point p that A holds three times
KdEqualRangeOfTriple ==
    \E v \in PointsOf(nd) :
        /\ Count(a, v) = 3
        /\ Asked([op |-> "kd_equal_range", value |-> v,
                  result |-> kd_equal_range(a, 0, Len(a), v)])

NextS5 ==
    \/ KdSortStep
    \/ KdSortReturn
    \/ KdEqualRangeOfTriple

SpecS5 == InitS5 /\ [][NextS5]_vars

\* the arrays of the range queries and of the threaded build: n points that
\* run through a w by h lattice row by row, so that points tie on an axis
\* and, past w * h of them, repeat
Lattice(n, w, h) == [i \in 1..n |-> <<(i - 1) % w, ((i - 1) \div w) % h>>]

LatticeArrays(lens) ==
    {Lattice(n, w, h) : n \in lens, w \in 1..(MaxCoord + 1), h \in 1..(MaxCoord + 1)}

\* arrays on both sides of the linear-scan threshold
InitRQ ==
    \E arr \in LatticeArrays((RangeQueryThreshold - 1)..(RangeQueryThreshold + RQExtra)) :
        InitWith(arr, 2)

NextRQ ==
    \/ KdSortStep
    \/ KdSortReturn
    \/ KdRangeQuery

SpecRQ == InitRQ /\ [][NextRQ]_vars

---------------------------------------------------------------------------
(* The ordered queries on the whole array, with the positions they          *)
(* dereference.                                                             *)

KdLowerBound ==
    \E v \in ProbesOf(nd) :
        Asked([op |-> "kd_lower_bound", value |-> v,
               result |-> kd_lower_bound(a, 0, Len(a), 0, v),
               reads |-> kd_lower_bound_reads(a, 0, Len(a), 0, v)])

KdUpperBound ==
    \E v \in ProbesOf(nd) :
        Asked([op |-> "kd_upper_bound", value |-> v,
               result |-> kd_upper_bound(a, 0, Len(a), 0, v),
               reads |-> kd_upper_bound_reads(a, 0, Len(a), 0, v)])

KdBinarySearchReads ==
    \E v \in ProbesOf(nd) :
        Asked([op |-> "kd_binary_search", value |-> v,
               result |-> kd_binary_search(a, 0, Len(a), v),
               reads |-> kd_binary_search_reads(a, 0, Len(a), v)])

KdEqualRange ==
    \E v \in ProbesOf(nd) :
        Asked([op |-> "kd_equal_range", value |-> v,
               result |-> kd_equal_range(a, 0, Len(a), v),
               reads |-> kd_equal_range_reads(a, 0, Len(a), v)])

NextBounds ==
    \/ KdSortStep
    \/ KdSortReturn
    \/ KdLowerBound
    \/ KdUpperBound
    \/ KdBinarySearchReads
    \/ KdEqualRange

SpecBounds == Init /\ [][NextBounds]_vars

---------------------------------------------------------------------------
(* kd_sort_threaded.  threads[1] is the caller's thread; thread t of a     *)
(* frame is the std::thread it constructed.  A frame is one call:          *)
(* kind "threaded" for kd_sort_threaded<I>, "seq" for kd_sort<I>.          *)
(*   pc "call"   the call is about to test distance(first, last) > 1       *)
(*      "select" nth_element and adjust_pivot are running on [first,last)  *)
(*      "split"  the pivot is placed; the branches are about to start      *)
(*      "join"   the left branch runs above this frame; t.join() follows   *)

Frame(kind, first, last, I, depth) ==
    [kind |-> kind, first |-> first, last |-> last, I |-> I, depth |-> depth,
     pc |-> "call", pivot |-> first, t |-> 0]

Top(st) == st[Len(st)]

Pop(st) == SubSeq(st, 1, Len(st) - 1)

RECURSIVE Shl(_)
\* 1 << n
Shl(n) == IF n = 0 THEN 1 ELSE 2 * Shl(n - 1)

\* the range the new thread is given: next(pivot), last
spawn_range(first, pivot, last) == <<pivot + 1, last>>

left_range_through_pivot(first, pivot, last) == <<first, pivot + 1>>

\* the range the spawning thread goes on with: first, pivot
left_range(first, pivot, last) == <<first, pivot>>

\* arrays of pairwise distinct points (h = MaxLenT) and arrays of copies of
\* at most MaxCoord + 1 points (h = 1)
ThreadedArrays ==
    {Lattice(n, w, h) : n \in 0..MaxLenT, w \in 1..(MaxCoord + 1), h \in {1, MaxLenT}}

InitThreaded ==
    \E arr \in ThreadedArrays, mt \in 0..MaxThreads :
        /\ a = arr
        /\ nd = 2
        /\ pc = "threaded"
        /\ stack = <<>>
        /\ built = {}
        /\ res = Idle
        /\ max_threads = mt
        /\ threads = <<(<<Frame("threaded", 0, Len(arr), 0, 1)>>)>>
        /\ busy = <<{}>>
        /\ status = "running"
        /\ createFailed = FALSE

Running(self) ==
    /\ status = "running"
    /\ self \in 1..Len(threads)
    /\ threads[self] # <<>>

\* if (distance(first, last) > 1): the call returns, or starts to permute
Enter(self) ==
    /\ Running(self)
    /\ Top(threads[self]).pc = "call"
    /\ LET f == Top(threads[self])
       IN  IF distance(f.first, f.last) > 1
           THEN /\ threads' = [threads EXCEPT ![self][Len(threads[self])].pc = "select"]
                /\ busy' = [busy EXCEPT ![self] = f.first..(f.last - 1)]
           ELSE /\ threads' = [threads EXCEPT ![self] = Pop(threads[self])]
                /\ busy' = busy
    /\ UNCHANGED <<a, nd, pc, stack, built, res, max_threads, status, createFailed>>

\* nth_element and adjust_pivot have run; a kd_sort call goes on with its
\* two recursive calls, the right one first
Select(self) ==
    /\ Running(self)
    /\ Top(threads[self]).pc = "select"
    /\ LET f == Top(threads[self])
           J == incr_wrap(f.I, nd)
           mid == middle_of(f.first, f.last) - f.first
       IN  \E s1 \in nth_element(Slice(a, f.first, f.last), mid, f.I) :
           \E r \in adjust_pivot(s1, mid, f.I) :
               LET pivot == f.first + r.pivot
               IN  /\ a' = Splice(a, f.first, f.last, r.seq)
                   /\ built' = built \cup {[first |-> f.first, last |-> f.last,
                                            I |-> f.I, pivot |-> pivot]}
                   /\ threads' =
                         [threads EXCEPT ![self] =
                             IF f.kind = "seq"
                             THEN Pop(threads[self])
                                  \o <<Frame("seq", f.first, pivot, J, 0),
                                       Frame("seq", pivot + 1, f.last, J, 0)>>
                             ELSE Pop(threads[self])
                                  \o <<[f EXCEPT !.pc = "split", !.pivot = pivot]>>]
    /\ busy' = [busy EXCEPT ![self] = {}]
    /\ UNCHANGED <<nd, pc, stack, res, max_threads, status, createFailed>>

CanSpawn(f) == f.kind = "threaded" /\ f.pc = "split" /\ Shl(f.depth) <= max_threads

\* thread t(kd_sort_threaded<J, Iter>, next(pivot), last, ...) succeeds, and
\* the spawning thread calls kd_sort_threaded<J>(first, pivot, ...)
Spawn(self) ==
    /\ Running(self)
    /\ CanSpawn(Top(threads[self]))
    /\ LET f == Top(threads[self])
           J == incr_wrap(f.I, nd)
           sr == spawn_range(f.first, f.pivot, f.last)
           lr == left_range(f.first, f.pivot, f.last)
       IN  threads' =
             Append([threads EXCEPT ![self] =
                        Pop(threads[self])
                        \o <<[f EXCEPT !.pc = "join", !.t = Len(threads) + 1],
                             Frame("threaded", lr[1], lr[2], J, f.depth + 1)>>],
                    <<Frame("threaded", sr[1], sr[2], J, f.depth + 1)>>)
    /\ busy' = Append(busy, {})
    /\ UNCHANGED <<a, nd, pc, stack, built, res, max_threads, status, createFailed>>

\* the std::thread constructor throws std::system_error: no handler catches
\* it.  It leaves the root call of the caller's thread to the caller; from a
\* deeper call it unwinds through a frame that holds a joinable std::thread,
\* and from a spawned thread it leaves the thread function: std::terminate
SpawnFails(self) ==
    /\ Running(self)
    /\ CanSpawn(Top(threads[self]))
    /\ createFailed' = TRUE
    /\ status' = IF self = 1 /\ Len(threads[self]) = 1 THEN "system_error" ELSE "terminated"
    /\ UNCHANGED <<a, nd, pc, stack, built, res, max_threads, threads, busy>>

\* the else branch: kd_sort<J>(next(pivot), last); kd_sort<J>(first, pivot)
Sequential(self) ==
    /\ Running(self)
    /\ LET f == Top(threads[self])
           J == incr_wrap(f.I, nd)
       IN  /\ f.kind = "threaded" /\ f.pc = "split" /\ ~(Shl(f.depth) <= max_threads)
           /\ threads' = [threads EXCEPT ![self] =
                             Pop(threads[self])
                             \o <<Frame("seq", f.first, f.pivot, J, 0),
                                  Frame("seq", f.pivot + 1, f.last, J, 0)>>]
    /\ UNCHANGED <<a, nd, pc, stack, built, res, max_threads, busy, status, createFailed>>

\* t.join() returns once thread t has left its thread function
Join(self) ==
    /\ Running(self)
    /\ Top(threads[self]).pc = "join"
    /\ threads[Top(threads[self]).t] = <<>>
    /\ threads' = [threads EXCEPT ![self] = Pop(threads[self])]
    /\ UNCHANGED <<a, nd, pc, stack, built, res, max_threads, busy, status, createFailed>>

\* kd_sort_threaded(first, last) returns to its caller
ThreadedReturn ==
    /\ status = "running"
    /\ threads[1] = <<>>
    /\ status' = "returned"
    /\ UNCHANGED <<a, nd, pc, stack, built, res, max_threads, threads, busy, createFailed>>

ThreadIds == 1..Len(threads)

NextThreaded ==
    \/ \E self \in ThreadIds : Enter(self)
    \/ \E self \in ThreadIds : Select(self)
    \/ \E self \in ThreadIds : Spawn(self)
    \/ \E self \in ThreadIds : SpawnFails(self)
    \/ \E self \in ThreadIds : Sequential(self)
    \/ \E self \in ThreadIds : Join(self)
    \/ ThreadedReturn

SpecThreaded == InitThreaded /\ [][NextThreaded]_vars

---------------------------------------------------------------------------
(* Properties of kd_sort and of the queries *)

Positions(arr) == 0..(Len(arr) - 1)

SamePoint(x, y) == \A d \in 0..(ndim(x) - 1) : get(d, x) = get(d, y)

Distinct(arr) == \A i, j \in Positions(arr) : i # j => ~SamePoint(At(arr, i), At(arr, j))

\* [first,last) is split at pivot as the data model asks: everything before
\* the pivot kd_less<I> than it, nothing after the pivot kd_less<I> than it
SplitAt(arr, first, pivot, last, I) ==
    /\ \A i \in first..(pivot - 1) : kd_less(I, At(arr, i), At(arr, pivot))
    /\ \A i \in (pivot + 1)..(last - 1) : ~kd_less(I, At(arr, i), At(arr, pivot))

\* kd-sorted at axis I with the middle element as the pivot of every range
RECURSIVE KdSortedAtMiddle(_, _, _, _)
KdSortedAtMiddle(arr, first, last, I) ==
    IF distance(first, last) < 2 THEN TRUE
    ELSE LET pivot == middle_of(first, last)
             J == incr_wrap(I, ndim(At(arr, first)))
         IN  /\ SplitAt(arr, first, pivot, last, I)
             /\ KdSortedAtMiddle(arr, first, pivot, J)
             /\ KdSortedAtMiddle(arr, pivot + 1, last, J)

\* kd-sorted at axis I with, as the pivot of every range, the position the
\* build's call on that range got from adjust_pivot
RECURSIVE KdSortedAtBuilt(_, _, _, _, _)
KdSortedAtBuilt(arr, calls, first, last, I) ==
    IF distance(first, last) < 2 THEN TRUE
    ELSE \E b \in calls :
            /\ b.first = first /\ b.last = last /\ b.I = I
            /\ SplitAt(arr, first, b.pivot, last, I)
            /\ KdSortedAtBuilt(arr, calls, first, b.pivot, incr_wrap(I, ndim(At(arr, first))))
            /\ KdSortedAtBuilt(arr, calls, b.pivot + 1, last, incr_wrap(I, ndim(At(arr, first))))

SortDone == pc \in {"built", "queried"}

\* C1: after kd_sort(A), kd_is_sorted(A) returns true.
C1_SortedArrayVerifies ==
    res.op = "kd_is_sorted" => res.result = TRUE

\* C2 as stated: after kd_sort the range is kd-sorted at axis 0 with every
\* range split at its middle index.
C2_KdSortedAtMiddle ==
    SortDone => KdSortedAtMiddle(a, 0, Len(a), 0)

\* C2, amended: after kd_sort every range the build split is split at the
\* position adjust_pivot returned for it (all before it kd_less<I> than it,
\* nothing after it kd_less<I> than it), and that position is the middle
\* index of the range whenever the points of the array are pairwise distinct.
C2_KdSortedAtBuiltPivot ==
    SortDone =>
        /\ KdSortedAtBuilt(a, built, 0, Len(a), 0)
        /\ Distinct(a) => \A b \in built : b.pivot = middle_of(b.first, b.last)

\* a build that moved a pivot left of the middle, past copies of the pivot
C2_Witness ==
    /\ SortDone
    /\ Len(a) >= 3
    /\ \E b \in built : b.pivot < middle_of(b.first, b.last)
    /\ \E b \in built : b.pivot = middle_of(b.first, b.last) /\ b.pivot > b.first

\* C3: kd_binary_search(A, v) is true exactly when A holds an element equal
\* to v on every axis.
C3_BinarySearchFindsExactly ==
    res.op = "kd_binary_search" =>
        res.result = (\E i \in Positions(a) : SamePoint(At(a, i), res.value))

\* a probe found although another element dominates it componentwise and
\* yet another ties with it on one axis only
C3_Witness ==
    /\ res.op = "kd_binary_search"
    /\ res.result = TRUE
    /\ \E i \in Positions(a) :
          ~SamePoint(At(a, i), res.value) /\ none_less(At(a, i), res.value)
    /\ \E i \in Positions(a) :
          /\ ~none_less(At(a, i), res.value)
          /\ \E d \in 0..(nd - 1) : get(d, At(a, i)) = get(d, res.value)

\* C4: kd_nearest_neighbor returns a position of A at the least distance
\* from the probe.
C4_NearestIsNearest ==
    res.op = "kd_nearest_neighbor" =>
        /\ res.result \in Positions(a)
        /\ \A i \in Positions(a) :
              l2dist2(At(a, res.result), res.value) <= l2dist2(At(a, i), res.value)

\* the far-side test of knn comes out as it would with a max_key that is
\* +infinity while the heap holds fewer than k pairs
MaxKeyPrunesAsBounded ==
    res.op = "kd_nearest_neighbors" =>
        \A c \in res.result.calls :
            c.size # res.n => (c.dist <= c.key) = (c.dist <= numeric_limits_max)

\* C5: kd_nearest_neighbors emits k elements of k distinct positions, none
\* of the others is strictly closer than an emitted one, and the far-side
\* test prunes as with a max_key that is the top distance if the heap holds
\* k pairs and +infinity otherwise.
C5_KNearestAreNearest ==
    res.op = "kd_nearest_neighbors" =>
        LET out == res.result.out
        IN  /\ Len(out) = res.n
            /\ \A i, j \in 1..Len(out) : i # j => out[i] # out[j]
            /\ \A i \in 1..Len(out) : out[i] \in Positions(a)
            /\ \A i \in 1..Len(out) : \A p \in Positions(a) :
                  (\A j \in 1..Len(out) : out[j] # p)
                      => l2dist2(At(a, out[i]), res.value) <= l2dist2(At(a, p), res.value)
            /\ \A c \in res.result.calls :
                  c.size # res.n => (c.dist <= c.key) = (c.dist <= numeric_limits_max)

\* C6: kd_range_query pushes to the sink each element of A that is within
\* [lower, upper), once per occurrence, and nothing else.
C6_RangeQueryReportsTheBox ==
    res.op = "kd_range_query" =>
        \A x \in PointsOf(nd) :
            Count(res.result, x) = IF within(x, res.lower, res.upper) THEN Count(a, x) ELSE 0

\* C7: for a point p that A holds exactly three times, kd_equal_range(A, p)
\* is a pair lo <= hi whose span [lo, hi) holds the three copies of p and
\* nothing else.
C7_EqualRangeSpansTheCopies ==
    res.op = "kd_equal_range" =>
        /\ res.result[1] <= res.result[2]
        /\ res.result[2] - res.result[1] = 3
        /\ \A i \in res.result[1]..(res.result[2] - 1) : SamePoint(At(a, i), res.value)

\* C10: on every range the build split, find_pivot returns the position the
\* build used as the pivot of that range.
C10_FindPivotIsBuildPivot ==
    res.op = "find_pivot" => res.result = res.used

\* the positions the calls of thread t that have not yet split may touch
Reach(t) ==
    UNION {threads[t][k].first..(threads[t][k].last - 1) :
              k \in {j \in 1..Len(threads[t]) : threads[t][j].pc # "join"}}

\* every call of thread t, pending or waiting in join, is on a range within
\* [lo, hi), and so is what the thread is permuting
ThreadWithin(t, lo, hi) ==
    /\ \A k \in 1..Len(threads[t]) :
          threads[t][k].first >= lo /\ threads[t][k].last <= hi
    /\ busy[t] \subseteq lo..(hi - 1)

\* C8 as stated: when the construction of a branch's thread has failed, no
\* failure reaches the caller or ends the process, and a build that has
\* returned has left the array kd-sorted.
C8_CreationFailureFallsBack ==
    createFailed =>
        /\ status \notin {"system_error", "terminated"}
        /\ status = "returned" => KdSortedAtBuilt(a, built, 0, Len(a), 0)

\* C9: at any moment of kd_sort_threaded no array position is being
\* permuted by two threads, nor is within the pending calls of two threads;
\* while a call waits in join, the thread it spawned works only inside
\* (pivot, last) and its own thread only inside [first, pivot); and a range
\* being permuted by nth_element/adjust_pivot is met in other threads only
\* by calls that wait in join around it.
C9_ConcurrentRangesDisjoint ==
    /\ \A s \in ThreadIds, t \in ThreadIds :
          s # t => /\ busy[s] \cap busy[t] = {}
                   /\ Reach(s) \cap Reach(t) = {}
    /\ \A s \in ThreadIds : busy[s] \subseteq Reach(s)
    /\ \A s \in ThreadIds : \A k \in 1..Len(threads[s]) :
          LET f == threads[s][k]
          IN  f.pc = "join" =>
                /\ ThreadWithin(f.t, f.pivot + 1, f.last)
                /\ \A j \in (k + 1)..Len(threads[s]) :
                      threads[s][j].first >= f.first /\ threads[s][j].last <= f.pivot
                /\ busy[s] \subseteq f.first..(f.pivot - 1)
    /\ \A s \in ThreadIds, t \in ThreadIds :
          s # t => \A k \in 1..Len(threads[t]) :
                      LET g == threads[t][k]
                      IN  busy[s] \cap g.first..(g.last - 1) # {} =>
                             g.pc = "join" /\ busy[s] \subseteq g.first..(g.last - 1)

\* four threads permute four ranges at once, two levels below the root call
C9_Witness ==
    /\ Len(threads) >= 4
    /\ Cardinality({t \in ThreadIds : busy[t] # {}}) >= 4
    /\ \E t \in ThreadIds : Len(threads[t]) >= 3

OrderedQueries == {"kd_lower_bound", "kd_upper_bound", "kd_binary_search", "kd_equal_range"}

\* C11: kd_lower_bound, kd_upper_bound, kd_binary_search and kd_equal_range,
\* called on the whole kd-sorted array [0, Len(a)), dereference only
\* positions p with 0 <= p < Len(a); no call on an empty range reads the
\* position last.
C11_BoundsReadWithinRange ==
    (res.op \in OrderedQueries /\ "reads" \in DOMAIN res) =>
        res.reads \subseteq Positions(a)


=========================================================================
